---- MODULE Spec2Model ----
(***************************************************************************)
(* EPC_revealer: the Revealer engine (src/revealer.py) running on a worker *)
(* thread, and the MainWindow consumer (src/main_window.py) on the GUI     *)
(* thread.  The two threads talk through two FIFO channels of queued Qt    *)
(* signals: cmdQ (MainWindow.search_stopped / search_started -> Revealer   *)
(* stop / start) and evQ (the five Revealer signals -> MainWindow slots).  *)
(* QTimer.singleShot callbacks of the worker are the FIFO `timers`.        *)
(***************************************************************************)
EXTENDS Integers, Sequences, FiniteSets, TLC

\* ------------------------------------------------------------------ bounds
\* how many times the user may switch the search on (revealer_number values)
MaxNumber == 2
\* queued Revealer signals not yet handled by the GUI thread
MaxEvQ == 1
\* response datagrams collected into _ip_addresses in one cycle
MaxIps == 2
\* turns of the reply wait loop of one probe that select() reports ready
MaxDatagrams == 1
\* rows of the list widget
MaxRows == 3

\* ------------------------------------------------- values of the program
NoIp == ""
NoDev == ""
AF_INET == "AF_INET"
AF_PACKET == "AF_PACKET"

\* class Devices; the two Cyrillic names are written in Latin letters
ASA == "ASA"
EYE_POINT_H10 == "EyePoint H10"
EYE_POINT_S2 == "EyePoint S2"
STANDAMELLON == "STANDAMELLON"
UIOB == "BVVU"
None == "None"

\* str.lower() on the words a page is made of (a page is a sequence of words;
\* a signature is found in a page when it is one of its lowered words)
lower(word) ==
    CASE word = "ASA" -> "asa"
      [] word = "Asa" -> "asa"
      [] word = "EyePoint H10" -> "eyepoint h10"
      [] word = "EYEPOINT H10" -> "eyepoint h10"
      [] word = "EyePoint S2" -> "eyepoint s2"
      [] word = "eyepoint S2" -> "eyepoint s2"
      [] word = "STANDAMELLON" -> "standamellon"
      [] word = "Standamellon" -> "standamellon"
      [] word = "BVVU" -> "bvvu"
      [] word = "Bvvu" -> "bvvu"
      [] word = "Welcome" -> "welcome"
      [] word = "Admin" -> "admin"
      [] OTHER -> word

\* `sig in html.lower()`
Contains(html, sig) == \E p \in 1..Len(html) : lower(html[p]) = sig

\* the tests for "eyepoint s2" and "standamellon" the other way round
analyze_page_s2_late(html) ==
    IF Contains(html, "asa") THEN ASA
    ELSE IF Contains(html, "eyepoint h10") THEN EYE_POINT_H10
    ELSE IF Contains(html, "standamellon") THEN STANDAMELLON
    ELSE IF Contains(html, "eyepoint s2") THEN EYE_POINT_S2
    ELSE IF Contains(html, "bvvu") THEN UIOB
    ELSE None

analyze_page(html) ==
    IF Contains(html, "asa") THEN ASA
    ELSE IF Contains(html, "eyepoint h10") THEN EYE_POINT_H10
    ELSE IF Contains(html, "eyepoint s2") THEN EYE_POINT_S2
    ELSE IF Contains(html, "standamellon") THEN STANDAMELLON
    ELSE IF Contains(html, "bvvu") THEN UIOB
    ELSE None

\* ------------------------------------------------------------- signals
\* A Revealer signal.  sig, number, ip, dev are what the signal carries
\* (device_identified carries no number: 0).  origin and cycle are history
\* fields: the start(n) that launched the emitting chain, and self.number
\* when the signal was emitted.
Ev(sig, n, ip, dev, origin, cycle) ==
    [sig |-> sig, number |-> n, ip |-> ip, dev |-> dev,
     origin |-> origin, cycle |-> cycle]

\* ------------------------------------------------------------ list rows
\* text of a row: ip_address, or f"{ip_address} ({device})"
BareText(ip) == <<ip>>
IdentifiedText(ip, device) == <<ip, " (", device, ")">>

StartsWith(text, prefix) ==
    /\ Len(text) >= Len(prefix)
    /\ SubSeq(text, 1, Len(prefix)) = prefix

\* findItems(address, MatchExactly) + findItems(f"{address} (", MatchStartsWith)
MatchesAddress(text, address) ==
    \/ text = BareText(address)
    \/ StartsWith(text, <<address, " (">>)

\* order of the words of row texts, for sortItems()
WordOrder ==
    <<"10.0.0.1", "10.0.0.2", "10.0.0.3", " (", ")",
      "ASA", "BVVU", "EyePoint H10", "EyePoint S2", "STANDAMELLON">>

WordRank(word) == CHOOSE r \in 1..Len(WordOrder) : WordOrder[r] = word

RECURSIVE TextLess(_, _)
TextLess(s, t) ==
    IF s = <<>> THEN t # <<>>
    ELSE IF t = <<>> THEN FALSE
    ELSE IF Head(s) = Head(t) THEN TextLess(Tail(s), Tail(t))
    ELSE WordRank(Head(s)) < WordRank(Head(t))

RECURSIVE InsertSorted(_, _)
InsertSorted(rows, text) ==
    IF rows = <<>> THEN <<text>>
    ELSE IF TextLess(text, Head(rows)) THEN <<text>> \o rows
    ELSE <<Head(rows)>> \o InsertSorted(Tail(rows), text)

RECURSIVE sortItems(_)
sortItems(rows) ==
    IF rows = <<>> THEN <<>>
    ELSE InsertSorted(sortItems(Tail(rows)), Head(rows))

\* MainWindow._add_item(text) with row = None: addItem, then sortItems
add_item(rows, text) == sortItems(Append(rows, text))

\* the values of an array, as np.setdiff1d and `in list(...)` see them
Values(arr) == {arr[p] : p \in 1..Len(arr)}

\* the difference taken the wrong way round
setdiff1d_swapped(old, new) == Values(new) \ Values(old)

\* np.setdiff1d(old, new)
setdiff1d(old, new) == Values(old) \ Values(new)

RECURSIVE RemoveRows(_, _)
RemoveRows(rows, addresses) ==
    IF rows = <<>> THEN <<>>
    ELSE IF \E a \in addresses : MatchesAddress(Head(rows), a)
         THEN RemoveRows(Tail(rows), addresses)
         ELSE <<Head(rows)>> \o RemoveRows(Tail(rows), addresses)

\* identify_device: every matching row whose text differs is taken out and a
\* row f"{ip_address} ({device})" is inserted at the same place
RelabelRows(rows, ip, device) ==
    [p \in 1..Len(rows) |->
        IF MatchesAddress(rows[p], ip) THEN IdentifiedText(ip, device)
        ELSE rows[p]]

\* --------------------------------------------------------------- state
VARIABLES
    \* Revealer (worker thread)
    number,          \* Revealer.number
    stop_search,     \* Revealer.stop_search
    ip_addresses,    \* Revealer._ip_addresses
    timers,          \* pending QTimer.singleShot callbacks, in firing order
    frame,           \* the handler the worker thread is running, if any
    \* channels
    cmdQ,            \* queued calls of Revealer.stop / Revealer.start
    evQ,             \* queued Revealer signals for the MainWindow slots
    \* MainWindow (GUI thread)
    revealer_number, \* MainWindow.revealer_number
    new_ip_addresses,
    old_ip_addresses,
    rows,            \* texts of list_widget_available_devices, top to bottom
    button,          \* button_search: checked, enabled, text
    closed,          \* closeEvent has run
    alive,           \* the process has not been ended by exception_hook
    \* history
    cyc,             \* per number: what the signals emitted so far amount to
    afterStop,       \* phase callbacks fired since the last stop()
    seen             \* what the consumer has accepted in this and the last cycle,
                     \* the addresses it added rows for and the rows it removed

vars == <<number, stop_search, ip_addresses, timers, frame, cmdQ, evQ,
          revealer_number, new_ip_addresses, old_ip_addresses, rows, button,
          closed, alive, cyc, afterStop, seen>>

engineVars == <<number, stop_search, ip_addresses, timers, frame>>
guiVars == <<revealer_number, new_ip_addresses, old_ip_addresses, rows, button>>

Numbers == 0..MaxNumber

\* the worker thread is in its event loop
Idle == [pc |-> "loop", iface |-> 0, addr |-> 0, idx |-> 0, budget |-> 0,
         last |-> "", html |-> <<>>, origin |-> 0]

Timer(cb, origin) == [cb |-> cb, origin |-> origin]

NoCycle == [phase |-> "none", found |-> <<>>, identified |-> <<>>,
            timeouts |-> <<>>, ends |-> 0, order |-> "ok"]

NothingSeen == [phase |-> "none", cycles |-> 0, prev |-> {}, cur |-> {},
                added |-> {}, removed |-> {}]

Init ==
    /\ number = 0
    /\ stop_search = FALSE
    /\ ip_addresses = <<>>
    /\ timers = <<>>
    /\ frame = Idle
    /\ cmdQ = <<>>
    /\ evQ = <<>>
    /\ revealer_number = 0
    /\ new_ip_addresses = <<>>
    /\ old_ip_addresses = <<>>
    /\ rows = <<>>
    /\ button = [checked |-> FALSE, enabled |-> TRUE, text |-> "Search"]
    /\ closed = FALSE
    /\ alive = TRUE
    /\ cyc = [n \in Numbers |-> NoCycle]
    /\ afterStop = 0
    /\ seen = NothingSeen

\* ------------------------------------------------------------- history
\* what one more emitted signal makes of the record of its number: the phase
\* of the cycle it belongs to, the addresses reported and identified in the
\* cycle and those whose fetch timed out, how many completed/stopped ended
\* it, and whether the signals came in the order started, deviceFound*,
\* deviceIdentified*, completed|stopped
Open == {"started", "found", "identified"}
Ended == {"completed", "stopped"}

ObserveCycle(c, e) ==
    CASE e.sig = "search_started" ->
            [phase |-> "started", found |-> <<>>, identified |-> <<>>,
             timeouts |-> <<>>, ends |-> 0,
             order |-> IF c.phase \in Ended \cup {"none"} THEN c.order ELSE "broken"]
      [] e.sig = "device_found" ->
            [c EXCEPT !.phase = "found",
                      !.found = Append(c.found, e.ip),
                      !.order = IF c.phase \in {"started", "found"}
                                THEN c.order ELSE "broken"]
      [] e.sig = "device_identified" ->
            [c EXCEPT !.phase = "identified",
                      !.identified = Append(c.identified, e.ip),
                      !.order = IF c.phase \in Open THEN c.order ELSE "broken"]
      [] OTHER ->
            [c EXCEPT !.phase = IF e.sig = "search_completed" THEN "completed"
                                ELSE "stopped",
                      !.ends = IF c.ends < 2 THEN c.ends + 1 ELSE 2,
                      !.order = IF c.phase \in Open THEN c.order ELSE "broken"]

Observe(h, e) == [h EXCEPT ![e.cycle] = ObserveCycle(h[e.cycle], e)]

\* room in the channel to the GUI thread (no slot runs once the window is closed)
CanEmit == closed \/ Len(evQ) < MaxEvQ

\* signal.emit(...) on the worker thread
Emit(e) ==
    /\ evQ' = IF closed THEN evQ ELSE Append(evQ, e)
    /\ cyc' = Observe(cyc, e)

NoEmit == UNCHANGED <<evQ, cyc>>

\* nothing is emitted for `ip`, whose fetch timed out
NoteTimeout(ip) ==
    /\ cyc' = [cyc EXCEPT ![number].timeouts = Append(@, ip)]
    /\ UNCHANGED evQ

\* one more phase callback has run since stop()
Tick == IF stop_search THEN afterStop + 1 ELSE 0

\* --------------------------------------------------- Revealer: commands
Cmd(call, arg) == [call |-> call, arg |-> arg]

InLoop == alive /\ frame.pc = "loop"

\* Revealer._start, in which the addresses of the last cycle are kept
start_body_keeps_addresses(origin, pending) ==
    /\ CanEmit
    /\ Emit(Ev("search_started", number', NoIp, NoDev, origin, number'))
    /\ UNCHANGED ip_addresses
    /\ timers' = Append(pending, Timer("_reveal", origin))

\* Revealer._start, run for the chain `origin`, `pending` being the callbacks
\* still waiting
start_body(origin, pending) ==
    /\ CanEmit
    /\ Emit(Ev("search_started", number', NoIp, NoDev, origin, number'))
    /\ ip_addresses' = <<>>
    /\ timers' = Append(pending, Timer("_reveal", origin))

\* Revealer.stop, as the queued slot of MainWindow.search_stopped
stop ==
    /\ InLoop
    /\ cmdQ # <<>>
    /\ Head(cmdQ).call = "stop"
    /\ cmdQ' = Tail(cmdQ)
    /\ stop_search' = TRUE
    /\ afterStop' = 0
    /\ UNCHANGED <<number, ip_addresses, timers, frame, evQ, cyc, guiVars,
                   closed, alive, seen>>

\* start(), in which the stop flag is left as it is
start_keeps_flag ==
    /\ InLoop
    /\ cmdQ # <<>>
    /\ Head(cmdQ).call = "start"
    /\ cmdQ' = Tail(cmdQ)
    /\ number' = Head(cmdQ).arg
    /\ UNCHANGED stop_search
    /\ start_body(Head(cmdQ).arg, timers)
    /\ afterStop' = 0
    /\ UNCHANGED <<frame, guiVars, closed, alive, seen>>


\* Revealer.start, as the queued slot of MainWindow.search_started
start ==
    /\ InLoop
    /\ cmdQ # <<>>
    /\ Head(cmdQ).call = "start"
    /\ cmdQ' = Tail(cmdQ)
    /\ number' = Head(cmdQ).arg
    /\ stop_search' = FALSE
    /\ start_body(Head(cmdQ).arg, timers)
    /\ afterStop' = 0
    /\ UNCHANGED <<frame, guiVars, closed, alive, seen>>

\* the timer of Revealer._start fires
start_timer ==
    /\ InLoop
    /\ timers # <<>>
    /\ Head(timers).cb = "_start"
    /\ number' = number
    /\ start_body(Head(timers).origin, Tail(timers))
    /\ afterStop' = Tick
    /\ UNCHANGED <<stop_search, frame, cmdQ, guiVars, closed, alive, seen>>

\* check_stop: the wrapped method is not run, search_stopped is emitted
check_stop ==
    /\ stop_search
    /\ CanEmit
    /\ Emit(Ev("search_stopped", number, NoIp, NoDev, Head(timers).origin, number))
    /\ timers' = Tail(timers)
    /\ frame' = Idle

\* ----------------------------------------------------- Revealer._reveal
\* psutil.net_if_addrs(): the interfaces, each with its addresses
Address(family, address) == [family |-> family, address |-> address]

OneIface == << <<Address(AF_INET, "192.168.0.5")>> >>

TwoIfaces ==
    << <<Address(AF_PACKET, "00:11:22:33:44:55"), Address(AF_INET, "192.168.0.5")>>,
       <<Address(AF_INET, "172.16.0.5")>> >>

\* a datagram read by recvfrom
Datagram(sender, data) == [sender |-> sender, data |-> data]

RESPONSE == <<"DISCOVER_CUBIELORD_RESPONSE", " ">>

\* where _reveal goes on after the address `a` of interface `i`, and after
\* interface `i`: the next stop check, or the end of the method
AfterIface(ifs, i) ==
    IF i < Len(ifs)
    THEN [frame EXCEPT !.pc = "iface", !.iface = i + 1, !.addr = 0, !.budget = 0]
    ELSE [frame EXCEPT !.pc = "end"]

AfterAddress(ifs, i, a) ==
    IF a < Len(ifs[i])
    THEN [frame EXCEPT !.pc = "addr", !.iface = i, !.addr = a + 1, !.budget = 0]
    ELSE AfterIface(ifs, i)

\* go on at `next`; at the end of the method _identify_sources is scheduled
RevealGoto(next, pending) ==
    IF next.pc = "end"
    THEN /\ frame' = Idle
         /\ timers' = Append(pending, Timer("_identify_sources", next.origin))
    ELSE /\ frame' = next
         /\ timers' = pending

\* the timer of Revealer._reveal fires: check_stop, then up to the first
\* interface of the loop
reveal_timer(ifs) ==
    /\ InLoop
    /\ timers # <<>>
    /\ Head(timers).cb = "_reveal"
    /\ IF stop_search
       THEN check_stop
       ELSE /\ NoEmit
            /\ RevealGoto([AfterIface(ifs, 0) EXCEPT !.origin = Head(timers).origin],
                          Tail(timers))
    /\ afterStop' = Tick
    /\ UNCHANGED <<number, stop_search, ip_addresses, cmdQ, guiVars, closed,
                   alive, seen>>

\* `if self.stop_search: return` before an interface (line 138)
reveal_iface(ifs) ==
    /\ alive
    /\ frame.pc = "iface"
    /\ IF stop_search
       THEN /\ frame' = Idle
            /\ UNCHANGED timers
       ELSE IF Len(ifs[frame.iface]) = 0
            THEN RevealGoto(AfterIface(ifs, frame.iface), timers)
            ELSE /\ frame' = [frame EXCEPT !.pc = "addr", !.addr = 1]
                 /\ UNCHANGED timers
    /\ UNCHANGED <<number, stop_search, ip_addresses, cmdQ, evQ, cyc, guiVars,
                   closed, alive, afterStop, seen>>

\* before an address (line 142), the family test, and the socket up to the
\* first turn of the wait loop; a failing bind is logged and the address skipped
reveal_address(ifs) ==
    /\ alive
    /\ frame.pc = "addr"
    /\ IF stop_search
       THEN /\ frame' = Idle
            /\ UNCHANGED timers
       ELSE IF ifs[frame.iface][frame.addr].family # AF_INET
            THEN RevealGoto(AfterAddress(ifs, frame.iface, frame.addr), timers)
            ELSE \/ /\ frame' = [frame EXCEPT !.pc = "wait", !.budget = MaxDatagrams]
                    /\ UNCHANGED timers
                 \/ RevealGoto(AfterAddress(ifs, frame.iface, frame.addr), timers)
    /\ UNCHANGED <<number, stop_search, ip_addresses, cmdQ, evQ, cyc, guiVars,
                   closed, alive, afterStop, seen>>

\* one turn of the wait loop (lines 155-167): stop check, the window is over,
\* or select() reports a datagram
reveal_wait(ifs, datagrams) ==
    /\ alive
    /\ frame.pc = "wait"
    /\ IF stop_search
       THEN /\ frame' = Idle
            /\ NoEmit
            /\ UNCHANGED <<timers, ip_addresses>>
       ELSE \/ /\ RevealGoto(AfterAddress(ifs, frame.iface, frame.addr), timers)
               /\ NoEmit
               /\ UNCHANGED ip_addresses
            \/ /\ frame.budget > 0
               /\ \E d \in datagrams :
                    IF StartsWith(d.data, RESPONSE)
                    THEN /\ Len(ip_addresses) < MaxIps
                         /\ CanEmit
                         /\ Emit(Ev("device_found", number, d.sender, NoDev,
                                    frame.origin, number))
                         /\ ip_addresses' = Append(ip_addresses, d.sender)
                    ELSE /\ NoEmit
                         /\ UNCHANGED ip_addresses
               /\ frame' = [frame EXCEPT !.budget = frame.budget - 1]
               /\ UNCHANGED timers
    /\ UNCHANGED <<number, stop_search, cmdQ, guiVars, closed, alive, afterStop,
                   seen>>

\* ------------------------------------------- Revealer._identify_sources
\* what loop.run_until_complete(wait_for(read_page(url), timeout=1)) does
Fetched(html) == [result |-> "page", html |-> html]
TimedOut == [result |-> "TimeoutError", html |-> <<>>]
Failed == [result |-> "ClientError", html |-> <<>>]

\* an except clause that catches nothing
Caught_nothing(outcome) == FALSE

\* the except clause of the fetch (line 114)
Caught(outcome) == outcome.result = "TimeoutError"

\* where the loop over _ip_addresses goes on after its entry `k`, whose fetch
\* ended as `result`
AfterFetch(k, result) ==
    IF k < Len(ip_addresses)
    THEN [frame EXCEPT !.pc = "fetch", !.idx = k + 1, !.last = result]
    ELSE [frame EXCEPT !.pc = "complete", !.idx = 0, !.last = result]

\* the timer of Revealer._identify_sources fires: check_stop, then up to the
\* first fetch
identify_timer ==
    /\ InLoop
    /\ timers # <<>>
    /\ Head(timers).cb = "_identify_sources"
    /\ IF stop_search
       THEN check_stop
       ELSE /\ NoEmit
            /\ frame' = [AfterFetch(0, "") EXCEPT !.origin = Head(timers).origin]
            /\ timers' = Tail(timers)
    /\ afterStop' = Tick
    /\ UNCHANGED <<number, stop_search, ip_addresses, cmdQ, guiVars, closed,
                   alive, seen>>

\* one turn of the loop (lines 110-120): the page is read and analysed, a
\* (frame.last and frame.html keep what the fetch of the turn gave)
\* timeout is logged, any other exception leaves the slot and reaches
\* sys.excepthook = exception_hook (src/main.py), which ends the process
identify_fetch(outcomes) ==
    /\ alive
    /\ frame.pc = "fetch"
    /\ \E outcome \in outcomes :
         IF outcome.result = "page"
         THEN /\ IF analyze_page(outcome.html) # None
                 THEN /\ CanEmit
                      /\ Emit(Ev("device_identified", 0, ip_addresses[frame.idx],
                                 analyze_page(outcome.html), frame.origin, number))
                 ELSE NoEmit
              /\ frame' = [AfterFetch(frame.idx, outcome.result) EXCEPT
                              !.html = outcome.html]
              /\ UNCHANGED alive
         ELSE IF Caught(outcome)
         THEN /\ NoteTimeout(ip_addresses[frame.idx])
              /\ frame' = [AfterFetch(frame.idx, outcome.result) EXCEPT
                              !.html = outcome.html]
              /\ UNCHANGED alive
         ELSE /\ NoEmit
              /\ frame' = [frame EXCEPT !.pc = "raised", !.last = outcome.result,
                                        !.html = outcome.html]
              /\ alive' = FALSE
    /\ UNCHANGED <<number, stop_search, ip_addresses, timers, cmdQ, guiVars,
                   closed, afterStop, seen>>

\* after the loop (lines 121-122)
identify_complete ==
    /\ alive
    /\ frame.pc = "complete"
    /\ CanEmit
    /\ Emit(Ev("search_completed", number, NoIp, NoDev, frame.origin, number))
    /\ timers' = Append(timers, Timer("_start", frame.origin))
    /\ frame' = Idle
    /\ UNCHANGED <<number, stop_search, ip_addresses, cmdQ, guiVars, closed,
                   alive, afterStop, seen>>

\* QThread.quit(), called by closeEvent, ends the worker's event loop
thread_quit ==
    /\ InLoop
    /\ closed
    /\ frame' = [frame EXCEPT !.pc = "finished"]
    /\ UNCHANGED <<number, stop_search, ip_addresses, timers, cmdQ, evQ, cyc,
                   guiVars, closed, alive, afterStop, seen>>

\* ------------------------------------------------------------ MainWindow
\* the addresses the list shows
Shown(list) == {list[p][1] : p \in 1..Len(list)}

\* a queued signal reaches its slot on the GUI thread
Delivered(sig) ==
    /\ alive
    /\ ~closed
    /\ evQ # <<>>
    /\ Head(evQ).sig = sig
    /\ evQ' = Tail(evQ)

\* check_correct_revealer
check_correct_revealer(revealer) == revealer_number = revealer

\* MainWindow.add_device
add_device ==
    /\ Delivered("device_found")
    /\ LET e == Head(evQ)
           shows == e.ip \notin Values(old_ip_addresses)
       IN IF check_correct_revealer(e.number)
          THEN /\ new_ip_addresses' = Append(new_ip_addresses, e.ip)
               /\ IF shows
                  THEN /\ Len(rows) < MaxRows
                       /\ rows' = add_item(rows, BareText(e.ip))
                  ELSE UNCHANGED rows
               /\ seen' = [seen EXCEPT
                             !.phase = IF seen.phase = "open" THEN "open" ELSE "none",
                             !.cycles = IF seen.phase = "open" THEN seen.cycles ELSE 0,
                             !.cur = seen.cur \cup {e.ip},
                             !.added = IF shows THEN seen.added \cup {e.ip}
                                       ELSE seen.added]
          ELSE UNCHANGED <<new_ip_addresses, rows, seen>>
    /\ UNCHANGED <<engineVars, cmdQ, revealer_number, old_ip_addresses, button,
                   closed, alive, cyc, afterStop>>

\* MainWindow.handle_completion
handle_completion ==
    /\ Delivered("search_completed")
    /\ IF check_correct_revealer(Head(evQ).number)
       THEN /\ rows' = RemoveRows(rows, setdiff1d(old_ip_addresses, new_ip_addresses))
            /\ seen' = IF seen.phase = "open"
                       THEN [seen EXCEPT
                               !.phase = "closed",
                               !.cycles = IF seen.cycles < 2 THEN seen.cycles + 1 ELSE 2,
                               !.removed = Values(rows) \ Values(rows')]
                       ELSE [seen EXCEPT !.phase = "none", !.cycles = 0]
       ELSE UNCHANGED <<rows, seen>>
    /\ UNCHANGED <<engineVars, cmdQ, revealer_number, new_ip_addresses,
                   old_ip_addresses, button, closed, alive, cyc, afterStop>>

\* MainWindow.handle_start
handle_start ==
    /\ Delivered("search_started")
    /\ IF check_correct_revealer(Head(evQ).number)
       THEN /\ old_ip_addresses' = new_ip_addresses
            /\ new_ip_addresses' = <<>>
            /\ button' = [button EXCEPT !.enabled = TRUE]
            /\ seen' = [phase |-> "open",
                        cycles |-> IF seen.phase = "closed" THEN seen.cycles ELSE 0,
                        prev |-> seen.cur, cur |-> {}, added |-> {}, removed |-> {}]
       ELSE UNCHANGED <<old_ip_addresses, new_ip_addresses, button, seen>>
    /\ UNCHANGED <<engineVars, cmdQ, revealer_number, rows, closed, alive, cyc,
                   afterStop>>

\* MainWindow.handle_stop
handle_stop ==
    /\ Delivered("search_stopped")
    /\ IF check_correct_revealer(Head(evQ).number)
       THEN /\ button' = [button EXCEPT !.enabled = TRUE]
            /\ seen' = [seen EXCEPT !.phase = "none", !.cycles = 0]
       ELSE UNCHANGED <<button, seen>>
    /\ UNCHANGED <<engineVars, cmdQ, revealer_number, new_ip_addresses,
                   old_ip_addresses, rows, closed, alive, cyc, afterStop>>

\* MainWindow.identify_device (not wrapped by check_correct_revealer)
identify_device ==
    /\ Delivered("device_identified")
    /\ rows' = RelabelRows(rows, Head(evQ).ip, Head(evQ).dev)
    /\ UNCHANGED <<engineVars, cmdQ, revealer_number, new_ip_addresses,
                   old_ip_addresses, button, closed, alive, cyc, afterStop, seen>>

\* MainWindow.start_or_stop_search, the slot of button_search.toggled: the
\* user can click the button only while it is enabled, and a click toggles it;
\* `runs` is how many times the user switches the search on
start_or_stop_search(status, runs) ==
    /\ alive
    /\ ~closed
    /\ button.enabled
    /\ status = ~button.checked
    /\ IF status
       THEN /\ revealer_number < runs
            /\ rows' = <<>>
            /\ new_ip_addresses' = <<>>
            /\ old_ip_addresses' = <<>>
            /\ revealer_number' = revealer_number + 1
            /\ cmdQ' = cmdQ \o <<Cmd("stop", 0), Cmd("start", revealer_number + 1)>>
            /\ button' = [checked |-> TRUE, enabled |-> FALSE, text |-> "Stop"]
            /\ seen' = NothingSeen
       ELSE /\ cmdQ' = Append(cmdQ, Cmd("stop", 0))
            /\ button' = [checked |-> FALSE, enabled |-> FALSE, text |-> "Search"]
            /\ UNCHANGED <<rows, new_ip_addresses, old_ip_addresses,
                           revealer_number, seen>>
    /\ UNCHANGED <<engineVars, evQ, closed, alive, cyc, afterStop>>

\* MainWindow.closeEvent: Revealer.stop is called on the GUI thread, whatever
\* the worker thread is doing; no slot of the window runs afterwards
closeEvent ==
    /\ alive
    /\ ~closed
    /\ stop_search' = TRUE
    /\ afterStop' = 0
    /\ closed' = TRUE
    /\ evQ' = <<>>
    /\ UNCHANGED <<number, ip_addresses, timers, frame, cmdQ, guiVars, alive,
                   cyc, seen>>

\* ------------------------------------------------------ the environment
PageS2 == <<"Welcome", "to", "EyePoint S2", "admin">>

Responses ==
    {Datagram("10.0.0.1", RESPONSE \o <<"host1">>),
     Datagram("10.0.0.2", RESPONSE \o <<"host2">>),
     Datagram("10.0.0.3", <<"DISCOVER_CUBIELORD_RESPONSE">>)}

Outcomes == {Fetched(PageS2), TimedOut, Failed}

\* ---------------------------------------------------- the whole program
\* The user switches the search on and off up to MaxNumber times; one
\* interface, one device answering.
OneDevice == {Datagram("10.0.0.1", RESPONSE \o <<"host1">>)}

Next ==
    \/ \E status \in BOOLEAN : start_or_stop_search(status, MaxNumber)
    \/ add_device
    \/ handle_completion
    \/ handle_start
    \/ handle_stop
    \/ identify_device
    \/ stop
    \/ start
    \/ start_timer
    \/ reveal_timer(OneIface)
    \/ reveal_iface(OneIface)
    \/ reveal_address(OneIface)
    \/ reveal_wait(OneIface, OneDevice)
    \/ identify_timer
    \/ identify_fetch({Fetched(PageS2), TimedOut})
    \/ identify_complete

Spec == Init /\ [][Next]_vars

\* One run of the search on a machine with two interfaces, two devices and a
\* stranger answering, pages read, timed out or failing; the window may be
\* closed at any moment.
NetNext ==
    \/ start_or_stop_search(TRUE, 1)
    \/ closeEvent
    \/ add_device
    \/ handle_completion
    \/ handle_start
    \/ identify_device
    \/ stop
    \/ start
    \/ start_timer
    \/ reveal_timer(TwoIfaces)
    \/ reveal_iface(TwoIfaces)
    \/ reveal_address(TwoIfaces)
    \/ reveal_wait(TwoIfaces, Responses)
    \/ identify_timer
    \/ identify_fetch(Outcomes)
    \/ identify_complete
    \/ thread_quit

NetSpec == Init /\ [][NetNext]_vars

\* The search is switched on once and never off and the window stays open;
\* two interfaces, three devices answering, their pages read or timed out.
ThreeDevices ==
    {Datagram("10.0.0.1", RESPONSE \o <<"host1">>),
     Datagram("10.0.0.2", RESPONSE \o <<"host2">>),
     Datagram("10.0.0.3", RESPONSE \o <<"host3">>)}

TwoInet ==
    << <<Address(AF_INET, "192.168.0.5")>>, <<Address(AF_INET, "172.16.0.5")>> >>

ListNext ==
    \/ start_or_stop_search(TRUE, 1)
    \/ add_device
    \/ handle_completion
    \/ handle_start
    \/ identify_device
    \/ stop
    \/ start
    \/ start_timer
    \/ reveal_timer(TwoInet)
    \/ reveal_iface(TwoInet)
    \/ reveal_address(TwoInet)
    \/ reveal_wait(TwoInet, ThreeDevices)
    \/ identify_timer
    \/ identify_fetch({Fetched(PageS2), TimedOut})
    \/ identify_complete

ListSpec == Init /\ [][ListNext]_vars

\* The search is switched on once and never off, the window stays open, a
\* fetch may also fail, and every thread keeps running: whatever can happen
\* next eventually does.
LiveNext ==
    \/ start_or_stop_search(TRUE, 1)
    \/ add_device
    \/ handle_completion
    \/ handle_start
    \/ identify_device
    \/ stop
    \/ start
    \/ start_timer
    \/ reveal_timer(TwoInet)
    \/ reveal_iface(TwoInet)
    \/ reveal_address(TwoInet)
    \/ reveal_wait(TwoInet, ThreeDevices)
    \/ identify_timer
    \/ identify_fetch({Fetched(PageS2), TimedOut, Failed})
    \/ identify_complete

LiveSpec == Init /\ [][LiveNext]_vars /\ WF_vars(LiveNext)

\* The search is switched on once; one interface, one device answering, whose
\* page holds any set of the five signatures, in mixed case and with the
\* signature of the lowest priority first.
SigWords == <<"Bvvu", "Standamellon", "eyepoint S2", "EYEPOINT H10", "Asa">>

Signatures == {lower(SigWords[p]) : p \in 1..Len(SigWords)}

PageOf(sigs) ==
    <<"Welcome">> \o SelectSeq(SigWords, LAMBDA w : lower(w) \in sigs) \o <<"Admin">>

Pages == {PageOf(sigs) : sigs \in SUBSET Signatures} \cup {PageS2}

PageNext ==
    \/ start_or_stop_search(TRUE, 1)
    \/ add_device
    \/ handle_completion
    \/ handle_start
    \/ identify_device
    \/ stop
    \/ start
    \/ start_timer
    \/ reveal_timer(OneIface)
    \/ reveal_iface(OneIface)
    \/ reveal_address(OneIface)
    \/ reveal_wait(OneIface, OneDevice)
    \/ identify_timer
    \/ identify_fetch({Fetched(page) : page \in Pages})
    \/ identify_complete

PageSpec == Init /\ [][PageNext]_vars

\* The user switches the search on, off and on again; one interface, one
\* device answering, its page read.
RunsNext ==
    \/ \E status \in BOOLEAN : start_or_stop_search(status, 2)
    \/ add_device
    \/ handle_completion
    \/ handle_start
    \/ handle_stop
    \/ identify_device
    \/ stop
    \/ start
    \/ start_timer
    \/ reveal_timer(OneIface)
    \/ reveal_iface(OneIface)
    \/ reveal_address(OneIface)
    \/ reveal_wait(OneIface, OneDevice)
    \/ identify_timer
    \/ identify_fetch({Fetched(PageS2)})
    \/ identify_complete

RunsSpec == Init /\ [][RunsNext]_vars

\* ================================================================ claims
\* the scan/identify chains that have a phase pending or running
Running == IF frame.pc \in {"iface", "addr", "wait", "fetch", "complete"} THEN 1 ELSE 0

ActiveChains == Len(timers) + Running

\* C1: whatever the user toggles and however stop()/start() and the timers
\* interleave, a Revealer has at most one scan/identify chain active: at most
\* one phase callback among _start/_reveal/_identify_sources is pending or
\* running.
C1_OneChain == ActiveChains <= 1

\* C2: within one cycle the signals come in the order started, then the
\* deviceFound, then the deviceIdentified, then one completed or stopped: no
\* deviceFound or deviceIdentified of a number lies outside a cycle of that
\* number, no deviceFound follows a deviceIdentified of the cycle, and a cycle
\* is not started again or ended twice.
C2_CycleOrder == \A n \in Numbers : cyc[n].order = "ok"

\* C5: once stop() has been processed and no start() follows, the engine is
\* quiescent (no phase callback pending) after at most two further phase
\* callbacks.
C5_QuiescentInTwo ==
    stop_search =>
        /\ afterStop <= 2
        /\ (afterStop = 2 /\ frame.pc = "loop") => timers = <<>>

\* C6: every signal that carries a number carries the number of the start(n)
\* that launched the chain emitting it, also after a later start(m).
C6_OwnNumber ==
    \A p \in 1..Len(evQ) :
        evQ[p].sig # "device_identified" => evQ[p].number = evQ[p].origin

\* no value occurs twice in the sequence
NoRepeat(q) == \A a, b \in 1..Len(q) : q[a] = q[b] => a = b

\* C3: in one cycle deviceFound(number, address) is emitted at most once for
\* an address, also when the device answers on several interfaces or more
\* than once in a wait window.
C3_FoundOnce == \A n \in Numbers : NoRepeat(cyc[n].found)

\* the step is one in which the worker reads stop_search at a checkpoint of
\* the running cycle and finds it set: check_stop at the entry of _reveal or
\* _identify_sources, or one of the tests inside _reveal
SeesStop ==
    /\ alive
    /\ stop_search
    /\ \/ frame.pc \in {"iface", "addr", "wait"} /\ frame' # frame
       \/ /\ frame.pc = "loop"
          /\ timers # <<>>
          /\ Head(timers).cb \in {"_reveal", "_identify_sources"}
          /\ timers' = Tail(timers)

\* C4: when the stop flag is seen set at a checkpoint of an active cycle, the
\* engine ends the cycle by emitting stopped(number), once, emits no
\* completed for it and schedules no further phase.
C4_StoppedEmitted ==
    [][SeesStop =>
          /\ cyc'[number].phase = "stopped"
          /\ cyc'[number].ends = cyc[number].ends + 1
          /\ frame' = Idle
          /\ Len(timers') <= Len(timers)]_vars

\* C7: after start(n), with no stop() and every thread running, every
\* started(n) is followed by completed(n) and every completed(n) by another
\* started(n), whatever binds fail and whatever the fetches do.
C7_CycleRepeats ==
    /\ [](cyc[1].phase \in Open => <>(cyc[1].phase = "completed"))
    /\ [](cyc[1].phase = "completed" => <>(cyc[1].phase = "started"))

\* C8: a fetch that fails otherwise than by a timeout touches its address
\* only: it never takes _identify_sources out of its loop (the remaining
\* addresses unfetched, completed not emitted, the next cycle not scheduled).
C8_FetchErrorIsolated == frame.pc # "raised"

\* the step is a turn of the loop of _identify_sources whose fetch timed out
FetchTimesOut ==
    /\ frame.pc = "fetch"
    /\ frame' # frame
    /\ frame'.last = "TimeoutError"

C10_Reconciled ==
    (seen.phase = "closed" /\ seen.cycles = 2) =>
        /\ {text[1] : text \in seen.removed} = seen.prev \ seen.cur
        /\ seen.added = seen.cur \ seen.prev
        /\ Shown(rows) = seen.cur

\* cycle N found two addresses, cycle N+1 one of them and another one: one
\* row, an identified one, removed, one added, one kept
C10_Witness ==
    /\ seen.phase = "closed"
    /\ seen.cycles = 2
    /\ \E text \in seen.removed : Len(text) > 1
    /\ seen.added # {}
    /\ seen.prev \cap seen.cur # {}

\* the priority order of the signatures and the kinds they stand for
Priority == <<"asa", "eyepoint h10", "eyepoint s2", "standamellon", "bvvu">>

Kinds == <<ASA, EYE_POINT_H10, EYE_POINT_S2, STANDAMELLON, UIOB>>

\* the kind of the first signature, in priority order, that the body contains
FirstKind(html) ==
    LET hits == {k \in 1..Len(Priority) : Contains(html, Priority[k])}
    IN IF hits = {} THEN None
       ELSE Kinds[CHOOSE k \in hits : \A j \in hits : k <= j]

\* C11: for every set of signatures the fetched body contains, in whatever
\* case and order, the kind reported by deviceIdentified is the first of them
\* in the order ASA, EyePoint H10, EyePoint S2, STANDAMELLON, UIOB, and
\* nothing is reported when the body contains none: a body with only
\* 'EyePoint S2' gives 'EyePoint S2'.
C11_FirstMatch ==
    [][(frame.pc = "fetch" /\ frame' # frame /\ frame'.last = "page") =>
          /\ analyze_page(PageS2) = EYE_POINT_S2
          /\ IF FirstKind(frame'.html) = None
             THEN evQ' = evQ /\ cyc' = cyc
             ELSE evQ' = Append(evQ, Ev("device_identified", 0,
                                        ip_addresses[frame.idx],
                                        FirstKind(frame'.html),
                                        frame.origin, number))]_vars

\* a body holding the signatures of STANDAMELLON and EyePoint S2, in that
\* order, and of no kind before them has been reported as EyePoint S2
C11_Witness ==
    /\ frame.last = "page"
    /\ Contains(frame.html, "standamellon")
    /\ Contains(frame.html, "eyepoint s2")
    /\ ~Contains(frame.html, "asa")
    /\ ~Contains(frame.html, "eyepoint h10")
    /\ evQ # <<>>
    /\ evQ[Len(evQ)].sig = "device_identified"
    /\ evQ[Len(evQ)].dev = EYE_POINT_S2

\* C12: a signal of a chain launched by another start(n) than the run the
\* consumer tracks (revealer_number), deviceIdentified included, is discarded
\* by the slot it reaches: the address arrays, the rows and their labels and
\* the button stay as they are.
C12_ForeignDiscarded ==
    [][(evQ # <<>> /\ evQ' = Tail(evQ) /\ Head(evQ).origin # revealer_number) =>
          UNCHANGED guiVars]_vars

\* the step is the queued call of stop() / of start(n) being run
StopStep == cmdQ # <<>> /\ Head(cmdQ).call = "stop" /\ cmdQ' = Tail(cmdQ)

StartStep == cmdQ # <<>> /\ Head(cmdQ).call = "start" /\ cmdQ' = Tail(cmdQ)

\* C13: stop() run while no cycle is active emits nothing and schedules
\* nothing (number, addresses and timers stay as they are), and the start(n)
\* that follows is not affected: it emits started(n), schedules the scan with
\* the stop flag cleared, and its cycles are never ended by stopped(n).
C13_IdleStopNoOp ==
    /\ [][(StopStep /\ ActiveChains = 0) =>
             UNCHANGED <<number, ip_addresses, timers, frame, evQ, cyc>>]_vars
    /\ [][StartStep =>
             /\ ~stop_search'
             /\ cyc'[Head(cmdQ).arg].phase = "started"
             /\ timers' = Append(timers, Timer("_reveal", Head(cmdQ).arg))]_vars
    /\ [](\A n \in Numbers : cyc[n].phase # "stopped")

\* after a stop() run while idle, start(1) has run a whole cycle, which found
\* a device and ended in completed(1)
C13_Witness ==
    /\ number = 1
    /\ cmdQ = <<>>
    /\ cyc[1].phase = "completed"
    /\ cyc[1].found # <<>>
    /\ seen.phase = "closed"

\* C14: in one cycle deviceIdentified(address, kind) is emitted at most once
\* for an address.
C14_IdentifiedOnce == \A n \in Numbers : NoRepeat(cyc[n].identified)

\* the step emits started to the consumer
EmitsStarted ==
    /\ Len(evQ') = Len(evQ) + 1
    /\ evQ'[Len(evQ')].sig = "search_started"

\* C15: once stop() has been processed and until start() is called again,
\* no started is emitted and no new cycle begins, also when the stop came
\* in the delay between completed and the next _start.
C15_HaltedAfterStop ==
    [][(stop_search /\ stop_search') =>
          /\ ~EmitsStarted
          /\ \A n \in Numbers :
                cyc'[n].phase = "started" => cyc[n].phase = "started"]_vars

\* the step is the timer of _start firing: the loop restarts itself
RestartStep ==
    /\ frame.pc = "loop"
    /\ timers # <<>>
    /\ Head(timers).cb = "_start"
    /\ timers' # timers
    /\ Len(timers') = Len(timers)

\* C16: start(n) clears the stop flag, sets number to n, emits started(n),
\* empties the current addresses and schedules the scan; the restart of the
\* loop emits started with the number unchanged, empties the addresses and
\* schedules the scan; number changes in no other step.
C16_StartEffect ==
    /\ [][StartStep =>
             /\ number' = Head(cmdQ).arg
             /\ ~stop_search'
             /\ evQ' = Append(evQ, Ev("search_started", Head(cmdQ).arg, NoIp, NoDev,
                                      Head(cmdQ).arg, Head(cmdQ).arg))
             /\ ip_addresses' = <<>>
             /\ timers' = Append(timers, Timer("_reveal", Head(cmdQ).arg))]_vars
    /\ [][RestartStep =>
             /\ number' = number
             /\ stop_search' = stop_search
             /\ evQ' = Append(evQ, Ev("search_started", number, NoIp, NoDev,
                                      Head(timers).origin, number))
             /\ ip_addresses' = <<>>
             /\ timers' = Append(Tail(timers), Timer("_reveal", Head(timers).origin))]_vars
    /\ [][number' # number => StartStep]_vars

\* the second run has found a device, completed a cycle and restarted its
\* loop, and the consumer has handled the started of the restart
C16_Witness ==
    /\ number = 2
    /\ revealer_number = 2
    /\ seen.phase = "open"
    /\ seen.cycles = 1
    /\ seen.prev # {}
    /\ ip_addresses = <<>>

\* the step is _identify_sources going on, after the fetch of at least one
\* address, while the stop flag is set
IdentifiesOn ==
    /\ alive
    /\ stop_search
    /\ frame' # frame
    /\ \/ frame.pc = "fetch" /\ frame.idx > 1
       \/ frame.pc = "complete" /\ ip_addresses # <<>>

\* C17: when the stop flag is set after the identification of some address
\* has begun, _identify_sources stops before the next address: no further
\* address is fetched or identified, completed is not emitted and the next
\* cycle is not scheduled.
C17_IdentifyAborts ==
    [][IdentifiesOn =>
          /\ frame' = Idle
          /\ cyc'[number].identified = cyc[number].identified
          /\ cyc'[number].timeouts = cyc[number].timeouts
          /\ cyc'[number].phase # "completed"
          /\ Len(timers') <= Len(timers)]_vars

\* C18: the current addresses of the engine (_ip_addresses) never hold an
\* address twice, whatever datagrams, interfaces and cycles there were.
C18_NoDuplicateAddress ==
    \A p, q \in 1..Len(ip_addresses) : ip_addresses[p] = ip_addresses[q] => p = q

\* C19: the list never shows two rows, bare or 'address (kind)', for one
\* address.
C19_OneRowPerAddress ==
    \A p, q \in 1..Len(rows) : rows[p][1] = rows[q][1] => p = q

\* C20: after the user has switched the search off, the button is enabled
\* again only when the chain of the run has ended: no phase callback is
\* pending or running while the button is up and enabled.
C20_Handshake == (~button.checked /\ button.enabled) => ActiveChains = 0

====
